---- MODULE Spec2Model ----
(***************************************************************************)
(* Proof-of-Prime blockchain node (src/src/main.rs): the mining engine     *)
(* (candidate construction, GCD and 1/ln(N) filters, Miller-Rabin          *)
(* verification, the race of four workers), the difficulty controller and  *)
(* the ledger behind the /mine and /chain handlers.                        *)
(*                                                                         *)
(* Rust's u64 does not fit TLC's 32-bit integers.  A u64 (and every exact  *)
(* integer the properties compare it with) is therefore a sequence of      *)
(* limbs in base 2^15, least significant first, without high zero limbs;   *)
(* zero is the empty sequence.  The arithmetic below is exact; the width   *)
(* of u64 enters only through Overflows and Wrap64.                        *)
(***************************************************************************)
EXTENDS Integers, Sequences, FiniteSets, Bags, TLC

----------------------------------------------------------------------------
(* Exact natural-number arithmetic on limb sequences.                      *)

Base == 2^15

RECURSIVE Norm(_)
Norm(x) == IF x = <<>> THEN <<>>
           ELSE IF x[Len(x)] = 0 THEN Norm(SubSeq(x, 1, Len(x) - 1))
           ELSE x

RECURSIVE N(_)
N(i) == IF i = 0 THEN <<>> ELSE <<i % Base>> \o N(i \div Base)

\* The value of a number below 2^30 as a TLC integer.
ToInt(x) == IF Len(x) = 0 THEN 0
            ELSE IF Len(x) = 1 THEN x[1]
            ELSE x[1] + Base * x[2]

IsSmall(x) == Len(x) <= 2

Limb(x, i) == IF i <= Len(x) THEN x[i] ELSE 0

RECURSIVE CmpFrom(_, _, _)
CmpFrom(x, y, i) == IF i = 0 THEN 0
                    ELSE IF x[i] < y[i] THEN -1
                    ELSE IF x[i] > y[i] THEN 1
                    ELSE CmpFrom(x, y, i - 1)

Cmp(x, y) == IF Len(x) < Len(y) THEN -1
             ELSE IF Len(x) > Len(y) THEN 1
             ELSE CmpFrom(x, y, Len(x))

Lt(x, y) == Cmp(x, y) < 0
Le(x, y) == Cmp(x, y) <= 0

RECURSIVE AddFrom(_, _, _, _)
AddFrom(x, y, i, carry) ==
    IF i > Len(x) /\ i > Len(y)
    THEN (IF carry = 0 THEN <<>> ELSE <<carry>>)
    ELSE LET s == Limb(x, i) + Limb(y, i) + carry
         IN  <<s % Base>> \o AddFrom(x, y, i + 1, s \div Base)

Add(x, y) == AddFrom(x, y, 1, 0)

\* x - y for x >= y.
RECURSIVE SubFrom(_, _, _, _)
SubFrom(x, y, i, borrow) ==
    IF i > Len(x) THEN <<>>
    ELSE LET s == x[i] - Limb(y, i) - borrow
         IN  IF s < 0 THEN <<s + Base>> \o SubFrom(x, y, i + 1, 1)
             ELSE <<s>> \o SubFrom(x, y, i + 1, 0)

Sub(x, y) == Norm(SubFrom(x, y, 1, 0))

\* x * s for a single limb s.
RECURSIVE MulLimbFrom(_, _, _, _)
MulLimbFrom(x, s, i, carry) ==
    IF i > Len(x) THEN (IF carry = 0 THEN <<>> ELSE <<carry>>)
    ELSE LET p == x[i] * s + carry
         IN  <<p % Base>> \o MulLimbFrom(x, s, i + 1, p \div Base)

MulLimb(x, s) == IF s = 0 THEN <<>> ELSE MulLimbFrom(x, s, 1, 0)

RECURSIVE MulFrom(_, _, _)
MulFrom(x, y, i) ==
    IF i > Len(y) THEN <<>>
    ELSE LET rest == MulFrom(x, y, i + 1)
         IN  Add(MulLimb(x, y[i]), IF rest = <<>> THEN <<>> ELSE <<0>> \o rest)

Mul(x, y) == IF x = <<>> \/ y = <<>> THEN <<>> ELSE MulFrom(x, y, 1)

IsOdd(x) == x # <<>> /\ x[1] % 2 = 1

\* x \div 2.
Half(x) == Norm([i \in 1..Len(x) |->
                    (x[i] \div 2) + (IF Limb(x, i + 1) % 2 = 1 THEN Base \div 2 ELSE 0)])

\* <<x \div s, x % s>> for a single limb s > 0; the remainder is a TLC integer.
RECURSIVE DivModLimbFrom(_, _, _)
DivModLimbFrom(x, s, i) ==
    IF i > Len(x) THEN <<<<>>, 0>>
    ELSE LET hi == DivModLimbFrom(x, s, i + 1)
             t  == hi[2] * Base + x[i]
         IN  <<(<<t \div s>> \o hi[1]), t % s>>

DivLimb(x, s) == Norm(DivModLimbFrom(x, s, 1)[1])
ModLimb(x, s) == DivModLimbFrom(x, s, 1)[2]

\* t % m for t < m * Base and a divisor m of two or more limbs whose top limb
\* is at least Base / 2: subtract an underestimate of the quotient until t < m.
RECURSIVE Reduce(_, _)
Reduce(t, m) ==
    IF Lt(t, m) THEN t
    ELSE LET L   == Len(m)
             top == IF Len(t) > L THEN t[L + 1] * Base + t[L] ELSE t[L]
             q   == top \div (m[L] + 1)
         IN  Reduce(Sub(t, MulLimb(m, IF q = 0 THEN 1 ELSE q)), m)

\* Long division in base 2^15, from the most significant limb of x down.
RECURSIVE ModFrom(_, _, _)
ModFrom(x, m, i) ==
    IF i > Len(x) THEN <<>>
    ELSE Reduce(Norm(<<x[i]>> \o ModFrom(x, m, i + 1)), m)

\* x % m for m > 0.
Mod(x, m) ==
    IF Lt(x, m) THEN x
    ELSE IF IsSmall(x) THEN N(ToInt(x) % ToInt(m))
    ELSE IF Len(m) = 1 THEN N(ModLimb(x, m[1]))
    ELSE LET f == Base \div (m[Len(m)] + 1)
         IN  DivLimb(ModFrom(MulLimb(x, f), MulLimb(m, f), 1), f)

One == <<1>>
Two == <<2>>
Three == <<3>>

RECURSIVE Pow10(_)
Pow10(e) == IF e = 0 THEN One ELSE MulLimb(Pow10(e - 1), 10)

\* A literal written in groups of six decimal digits, most significant first:
\* Dec(<<68719, 476737>>) is 68719476737.
RECURSIVE Dec(_)
Dec(g) == IF g = <<>> THEN <<>>
          ELSE Add(Mul(Dec(SubSeq(g, 1, Len(g) - 1)), N(1000000)), N(g[Len(g)]))

----------------------------------------------------------------------------
(* The width of u64.                                                       *)

\* x >= 2^64: 64 bits are four limbs and the low four bits of the fifth.
Overflows(x) == Len(x) > 5 \/ (Len(x) = 5 /\ x[5] >= 16)

\* x % 2^64
Wrap64(x) == IF ~Overflows(x) THEN x
             ELSE Norm(<<x[1], x[2], x[3], x[4], x[5] % 16>>)

\* What an arithmetic overflow leaves behind when the build checks for it
\* (Rust's debug profile panics); no number has a negative limb.
Panic == <<-1>>

\* x * y and x + y on u64: with overflow checks the thread panics, without
\* them (the release profile) the result wraps modulo 2^64.
MulU64(x, y, checks) ==
    IF x = Panic \/ y = Panic THEN Panic
    ELSE LET p == Mul(x, y)
         IN  IF Overflows(p) THEN (IF checks THEN Panic ELSE Wrap64(p)) ELSE p

AddU64(x, y, checks) ==
    IF x = Panic \/ y = Panic THEN Panic
    ELSE LET p == Add(x, y)
         IN  IF Overflows(p) THEN (IF checks THEN Panic ELSE Wrap64(p)) ELSE p

\* 10_u64.pow(e)
Pow10U64(e, checks) ==
    LET p == Pow10(e)
    IN  IF Overflows(p) THEN (IF checks THEN Panic ELSE Wrap64(p)) ELSE p

----------------------------------------------------------------------------
(* Primality: mod_pow and miller_rabin.                                    *)

\* The loop of mod_pow: result and base are below modu, exp is what is left
\* of the exponent.  The squaring of base runs in every iteration, the last
\* one included.
RECURSIVE mod_pow_loop(_, _, _, _, _)
mod_pow_loop(result, base, exp, modu, checks) ==
    IF exp = <<>> THEN result
    ELSE LET r1 == IF IsOdd(exp) THEN MulU64(result, base, checks) ELSE result
             b1 == MulU64(base, base, checks)
         IN  IF r1 = Panic \/ b1 = Panic THEN Panic
             ELSE mod_pow_loop(IF IsOdd(exp) THEN Mod(r1, modu) ELSE r1,
                               Mod(b1, modu), Half(exp), modu, checks)

mod_pow(base, exp, modu, checks) == mod_pow_loop(One, Mod(base, modu), exp, modu, checks)

\* <<d, r>> with x = d * 2^r and d odd, from <<x, 0>> (x > 0).
RECURSIVE TwoAdic(_, _)
TwoAdic(d, r) == IF IsOdd(d) THEN <<d, r>> ELSE TwoAdic(Half(d), r + 1)

\* The one element of a singleton.  Written Only({F(v) : v \in {e}}), it
\* computes e once and names its value v in F.
Only(S) == CHOOSE v \in S : TRUE

\* MRRound with a round that also passes when the first power is 0 or the
\* inner loop runs out.
MRRoundLax(a, n, checks) == "pass"

\* The inner loop of one Miller-Rabin round, `left` more squarings of x at
\* most: <<"pass", _>> when one gives n - 1, <<"panic", _>> when one
\* overflows, and <<"fail", x'>> with the last square x' otherwise.  The
\* squarings are taken half by half, the second half from where the first
\* stopped.
RECURSIVE Squarings(_, _, _, _)
Squarings(x, left, n, checks) ==
    IF left = 0 THEN <<"fail", x>>
    ELSE IF left = 1
    THEN Only({ IF x1 = Panic THEN <<"panic", x>>
                ELSE IF x1 = Sub(n, One) THEN <<"pass", x1>>
                ELSE <<"fail", x1>>
                : x1 \in {mod_pow(x, Two, n, checks)} })
    ELSE Only({ IF h[1] # "fail" THEN h
                ELSE Squarings(h[2], left - left \div 2, n, checks)
                : h \in {Squarings(x, left \div 2, n, checks)} })

SquareLoop(x, left, n, checks) == Squarings(x, left, n, checks)[1]

\* One round of miller_rabin on an odd n > 3 with the base a: "pass" (the
\* round continues to the next), "fail" (return false) or "panic".
MRRound(a, n, checks) ==
    Only({ Only({ IF x = Panic THEN "panic"
                  ELSE IF x = One \/ x = Sub(n, One) THEN "pass"
                  ELSE SquareLoop(x, dr[2] - 1, n, checks)
                  : x \in {mod_pow(a, dr[1], n, checks)} })
           : dr \in {TwoAdic(Sub(n, One), 0)} })

\* What miller_rabin decides before it draws any base: "false", "true", or
\* "rounds" when the k rounds are to run.
MRPre(n) == IF Le(n, One) THEN "false"
            ELSE IF Le(n, Three) THEN "true"
            ELSE IF ~IsOdd(n) THEN "false"
            ELSE "rounds"

----------------------------------------------------------------------------
(* The cheap filters: gcd and prime_heuristic.                             *)

RECURSIVE gcd(_, _)
gcd(a, b) == IF b = <<>> THEN a ELSE gcd(b, Mod(a, b))

RECURSIVE BitLen(_)
BitLen(v) == IF v = 0 THEN 0 ELSE 1 + BitLen(v \div 2)

\* floor(log2 n) for n > 0.
FloorLog2(n) == 15 * (Len(n) - 1) + BitLen(n[Len(n)]) - 1

\* The leading 15 bits m of n > 0: m * 2^e <= n < (m + 1) * 2^e with
\* e = FloorLog2(n) - 14 and 2^14 <= m < 2^15.
Top15(n) == LET top == n[Len(n)]
                nxt == IF Len(n) > 1 THEN n[Len(n) - 1] ELSE 0
            IN  (top * Base + nxt) \div 2^BitLen(top)

\* Binary logarithm of y / 2^14 in [1, 2] by repeated squaring, in units of
\* 2^-12: LogLo rounds every step down and is a lower bound, LogHi rounds
\* every step up and is an upper bound.
RECURSIVE LogLo(_, _)
LogLo(y, i) ==
    IF i > 12 THEN 0
    ELSE LET s == (y * y) \div 2^14
         IN  IF s >= 2^15 THEN 2^(12 - i) + LogLo(s \div 2, i + 1)
             ELSE LogLo(s, i + 1)

RECURSIVE LogHi(_, _)
LogHi(y, i) ==
    IF i > 12 THEN 1
    ELSE LET s == (y * y + 2^14 - 1) \div 2^14
         IN  IF s >= 2^15 THEN 2^(12 - i) + LogHi((s + 1) \div 2, i + 1)
             ELSE LogHi(s, i + 1)

\* Bounds <<lo, hi>> of log2(n) for n >= 2, in units of 2^-12.
Log2Bounds(n) == <<FloorLog2(n) * 2^12 + LogLo(Top15(n), 1),
                   FloorLog2(n) * 2^12 + LogHi(Top15(n) + 1, 1)>>

\* The results the f64 comparison 1 / ln(n) >= min_prob can have, with
\* min_prob = mp / 10000 and lg the bounds of log2(n).  It is
\* mp * ln(n) <= 10000 with ln(n) = log2(n) * ln 2 and
\* 0.693147 < ln 2 < 0.693148; where the bounds do not decide (n within
\* about 0.01% of the threshold in log scale) both results are allowed.
Heuristic(lg, mp) ==
    LET lo == 59092719    \* floor(10^10 * 2^12 / 693148)
        hi == 59092804    \* floor(10^10 * 2^12 / 693147)
    IN  IF mp * lg[2] <= lo THEN {TRUE}
        ELSE IF mp * lg[1] > hi THEN {FALSE}
        ELSE {TRUE, FALSE}

\* prime_heuristic(n, min_prob)
prime_heuristic(n, mp) ==
    IF Lt(n, Two) THEN {FALSE} ELSE Heuristic(Log2Bounds(n), mp)

----------------------------------------------------------------------------
(* Blocks.                                                                 *)

RECURSIVE XorInt(_, _)
XorInt(a, b) == IF a = 0 THEN b
                ELSE IF b = 0 THEN a
                ELSE ((a + b) % 2) + 2 * XorInt(a \div 2, b \div 2)

\* x ^ y
Xor(x, y) == Norm([i \in 1..(IF Len(x) > Len(y) THEN Len(x) ELSE Len(y)) |->
                      XorInt(Limb(x, i), Limb(y, i))])

HexDigits == <<"0", "1", "2", "3", "4", "5", "6", "7",
               "8", "9", "a", "b", "c", "d", "e", "f">>

RECURSIVE HexFrom(_)
HexFrom(x) == IF x = <<>> THEN ""
              ELSE Only({ HexFrom(q) \o HexDigits[ModLimb(x, 16) + 1]
                          : q \in {DivLimb(x, 16)} })

\* format!("{:x}", x)
ToHex(x) == Only({ IF v = <<>> THEN "0" ELSE HexFrom(v) : v \in {x} })

genesis == [index |-> 0, prev_hash |-> "0", prime |-> Two,
            a |-> One, b |-> One, c |-> One, d |-> One, hash |-> "genesis"]

\* A Block whose hash leaves out the tip's prime.
NewBlockNoXor(prev, n, cand) ==
    [index |-> prev.index + 1, prev_hash |-> prev.hash, prime |-> n,
     a |-> cand[1], b |-> cand[2], c |-> cand[3], d |-> cand[4],
     hash |-> ToHex(n)]

\* The Block a worker builds from the tip prev, the number n and the factors.
NewBlock(prev, n, cand) ==
    [index |-> prev.index + 1, prev_hash |-> prev.hash, prime |-> n,
     a |-> cand[1], b |-> cand[2], c |-> cand[3], d |-> cand[4],
     hash |-> ToHex(Xor(n, prev.prime))]

PushFront(ch, block) == <<block>> \o ch

\* A push that overwrites the tip.
PushOver(ch, block) == [ch EXCEPT ![Len(ch)] = block]

\* chain.push(block)
push(ch, block) == Append(ch, block)

----------------------------------------------------------------------------
(* miller_rabin as the set of results its random bases allow.              *)

\* 2^e
Pow2(e) == [i \in 1..(e \div 15 + 1) |-> IF i = e \div 15 + 1 THEN 2^(e % 15) ELSE 0]

\* The bases gen_range(2..n - 1) is taken to draw, for odd n > 3: every base
\* when n is below AllBases, and otherwise the least, the greatest and the
\* power of two nearest the square root.
AllBases == 1024
Bases(n) == IF Len(n) = 1 /\ n[1] < AllBases THEN {N(i) : i \in 2..(n[1] - 2)}
            ELSE {Two, Sub(n, Two), Pow2(FloorLog2(n) \div 2)}

\* miller_rabin(n, k): "true", "false" or "panic".  A round that fails
\* returns false at once, so false needs one failing base and true needs a
\* passing base in each of the k rounds (the draws are independent).
miller_rabin(n, k, checks) ==
    IF MRPre(n) # "rounds" THEN {MRPre(n)}
    ELSE IF k = 0 THEN {"true"}
    ELSE Only({ (IF "pass" \in rs THEN {"true"} ELSE {})
                \cup (IF "fail" \in rs THEN {"false"} ELSE {})
                \cup (IF "panic" \in rs THEN {"panic"} ELSE {})
                : rs \in {{MRRound(a, n, checks) : a \in Bases(n)}} })

----------------------------------------------------------------------------
(* The difficulty controller's arithmetic.  N_LIMIT and MIN_DIGITS are the   *)
(* integers of the source; MIN_PROB is min_prob in ten-thousandths.  The     *)
(* model keeps the three as TLC integers (they stay far below 2^31 within    *)
(* the bounds).  A duration is in milliseconds.                              *)

Min(x, y) == IF x < y THEN x ELSE y
Max(x, y) == IF x > y THEN x ELSE y

target == 10000

IsFastOrEqual(duration) == 10 * duration <= 6 * target

\* duration < target * 0.6 and duration > target * 1.4 (6.0 and 14.0 in f64)
IsFast(duration) == 10 * duration < 6 * target
IsSlow(duration) == 10 * duration > 14 * target

\* (x as f64 * 1.5) as u64: the product is exact in f64.
NLimitUp(x) == (3 * x) \div 2

MinProbUpRounded(x) == Min((12 * x + 5) \div 10, 1000)

\* (x as f64 * 1.2).min(1000.0) as u64: f64 rounds x * 1.2 to the integer
\* whenever 1.2 x is one, so the cast truncates the exact product.
MinProbUp(x) == Min((12 * x) \div 10, 1000)

RECURSIVE Pow2Below(_)
Pow2Below(v) == IF v < 2 THEN 1 ELSE 2 * Pow2Below(v \div 2)

\* (x as f64 * 0.7) as u64.  The f64 nearest 0.7 is 0.7 - 0.2 * 2^-52; when
\* 0.7 x is an integer v the product lies 0.4 x * 2^-53 below v, and rounds to
\* the f64 below v (which truncates to v - 1) when that gap exceeds half the
\* spacing of the f64 numbers under v: 0.4 x > 2^e for 2^e <= v < 2^(e+1).
MulPoint7(x) ==
    IF x > 0 /\ x % 10 = 0 /\ 2 * x > 5 * Pow2Below((7 * x) \div 10)
    THEN (7 * x) \div 10 - 1
    ELSE (7 * x) \div 10

\* (x as f64 * 0.7).max(100) as u64
NLimitDown(x) == Max(MulPoint7(x), 100)

\* (x as f64 * 0.8).max(50.0) as u64: the f64 nearest 0.8 is above 0.8.
\* The slow update of MIN_PROB without its floor.
MinProbDownNoFloor(x) == (8 * x) \div 10

MinProbDown(x) == Max((8 * x) \div 10, 50)

\* adjust_difficulty(duration) applied to the parameter set p as a whole.
adjust_difficulty(p, duration) ==
    IF IsFast(duration)
    THEN [n_limit |-> NLimitUp(p.n_limit), min_digits |-> p.min_digits + 1,
          min_prob |-> MinProbUp(p.min_prob)]
    ELSE IF IsSlow(duration)
    THEN [n_limit |-> NLimitDown(p.n_limit), min_digits |-> p.min_digits,
          min_prob |-> MinProbDown(p.min_prob)]
    ELSE p

----------------------------------------------------------------------------
(* One iteration of mine_worker's loop.                                    *)

\* The candidates <<a, b, c, d>> the model lets the random source draw.
\* Digits 7 to 10: a + c is a prime below 2^32; a pair not in lowest terms;
\* a composite a + c; a prime a*d + b*c above 2^32.  Digits 11 to 17:
\* a + c = 2^r + 1, which the base 2^(r/2) passes in every round.  Digits 15:
\* a*d + b*c = 2^64 + 2^31 - 1.  One digit: the numbers 2, 5, a rejected pair,
\* 8 and 9.
Pool ==
    { <<Dec(<<1, 0>>), One, Dec(<<1, 3>>), One>>,
      <<Dec(<<1, 0>>), Two, Dec(<<1, 3>>), One>>,
      <<Dec(<<1, 0>>), One, Dec(<<1, 1>>), One>>,
      <<Dec(<<9, 999991>>), N(1000), Dec(<<9, 999986>>), N(999)>>,
      <<Dec(<<10, 0>>), One, Dec(<<10, 3>>), One>>,
      <<Dec(<<100, 0>>), One, Dec(<<100, 33>>), One>>,
      <<Dec(<<1000, 0>>), One, Dec(<<1000, 11>>), One>>,
      <<Pow10(10), One, Sub(Pow2(36), Sub(Pow10(10), One)), One>>,
      <<Pow10(11), One, Sub(Pow2(38), Sub(Pow10(11), One)), One>>,
      <<Pow10(12), One, Sub(Pow2(42), Sub(Pow10(12), One)), One>>,
      <<Pow10(13), One, Sub(Pow2(46), Sub(Pow10(13), One)), One>>,
      <<Pow10(14), One, Sub(Pow2(48), Sub(Pow10(14), One)), One>>,
      <<Pow10(15), One, Sub(Pow2(52), Sub(Pow10(15), One)), One>>,
      <<Pow10(16), One, Sub(Pow2(56), Sub(Pow10(16), One)), One>>,
      <<Dec(<<998, 0, 7951>>), N(9241), Dec(<<998, 400830, 622614>>), N(9239)>> }
    \cup { <<One, One, One, One>>, <<One, One, N(4), One>>, <<N(4), Two, One, One>>,
           <<N(4), One, N(4), One>>, <<N(4), One, One, Two>> }

\* What gen_range does with the range of a and of c: it panics when
\* 10^min_digits overflows under overflow checks, or when the range is empty.
DrawPanics(min_digits, checks) ==
    Only({ lh[1] = Panic \/ lh[2] = Panic \/ ~Lt(lh[1], lh[2])
           : lh \in {<<Pow10U64(min_digits - 1, checks), Pow10U64(min_digits, checks)>>} })

\* The candidates with a and c in 10^(min_digits-1) .. 10^min_digits.
InDigits(min_digits, checks) ==
    Only({ {cand \in Pool : /\ Le(lh[1], cand[1]) /\ Lt(cand[1], lh[2])
                            /\ Le(lh[1], cand[3]) /\ Lt(cand[3], lh[2])}
           : lh \in {<<Pow10U64(min_digits - 1, checks), Pow10U64(min_digits, checks)>>} })

\* The two, computed once for the digit counts the model can reach.
MaxDigits == 21
RangeTable ==
    [x \in (1..MaxDigits) \X BOOLEAN |->
        IF DrawPanics(x[1], x[2]) THEN [panics |-> TRUE, pool |-> {}]
        ELSE [panics |-> FALSE, pool |-> InDigits(x[1], x[2])]] @@ <<>>

\* The draws possible under the parameters p (which do not panic): a, c of
\* min_digits digits and b, d in 1 ..= n_limit.
Draws(p, checks) ==
    {cand \in RangeTable[<<p.min_digits, checks>>].pool :
        /\ Le(One, cand[2]) /\ Le(cand[2], N(p.n_limit))
        /\ Le(One, cand[4]) /\ Le(cand[4], N(p.n_limit))}

\* let n = a * d + b * c
CandN(cand, checks) == AddU64(MulU64(cand[1], cand[4], checks), MulU64(cand[2], cand[3], checks), checks)

GcdRejects(cand) == gcd(cand[1], cand[2]) # One \/ gcd(cand[3], cand[4]) # One

\* What does not depend on the parameters or the tip, computed once for each
\* candidate of the pool and each build: the GCD filter, n, miller_rabin(n, 12).
CandTable ==
    [x \in Pool \X BOOLEAN |->
        IF GcdRejects(x[1]) THEN [gcd_rejected |-> TRUE, n |-> <<>>, lg |-> <<>>, mr |-> {}]
        ELSE Only({ [gcd_rejected |-> FALSE, n |-> n,
                     lg |-> IF n = Panic \/ Lt(n, Two) THEN <<>> ELSE Log2Bounds(n),
                     mr |-> IF n = Panic THEN {} ELSE miller_rabin(n, 12, x[2])]
                    : n \in {CandN(x[1], x[2])} })] @@ <<>>

\* The ways one iteration with the draw cand can end: "gcd_rejected",
\* "heuristic_rejected", "miller_rabin_rejected", "panic", or "block" with
\* the Block returned.
Iteration(prev, p, cand, checks) ==
    Only({ IF t.gcd_rejected THEN {[kind |-> "gcd_rejected"]}
           ELSE IF t.n = Panic THEN {[kind |-> "panic"]}
           ELSE UNION {
                  IF ~h THEN {[kind |-> "heuristic_rejected"]}
                  ELSE { IF v = "true"
                         THEN [kind |-> "block", block |-> NewBlock(prev, t.n, cand)]
                         ELSE IF v = "false" THEN [kind |-> "miller_rabin_rejected"]
                         ELSE [kind |-> "panic"] : v \in t.mr }
                  : h \in IF t.lg = <<>> THEN {FALSE} ELSE Heuristic(t.lg, p.min_prob) }
           : t \in {CandTable[<<cand, checks>>]} })

----------------------------------------------------------------------------
(* The node.  A /mine handler runs mine_block_parallel (a channel and four   *)
(* blocking workers), pushes the block it receives and retunes the three     *)
(* statics.  The workers of a round outlive it: nothing stops them.          *)

VARIABLES
    oc,          \* the build: TRUE when integer overflow panics (overflow checks)
    chain,       \* state.chain
    N_LIMIT,     \* the three statics
    MIN_DIGITS,
    MIN_PROB,
    handlers,    \* the /mine requests being served, by connection
    channels,    \* the mpsc channels created so far, one for each round started
    workers,     \* the bag of the blocking tasks still running
    returned,    \* the answers sent to /mine requests: how many, and the last
    mr           \* a call of miller_rabin made on its own

vars == <<oc, chain, N_LIMIT, MIN_DIGITS, MIN_PROB, handlers, channels, workers, returned, mr>>

MaxRounds == 2
MaxIter == 1
NumWorkers == 4

\* The wall-clock durations a round may measure, in milliseconds.
Durations == {3000, 10000, 16000}

Statics == [n_limit |-> N_LIMIT, min_digits |-> MIN_DIGITS, min_prob |-> MIN_PROB]

IdleHandler == [pc |-> "idle", ch |-> 0, got |-> <<>>, duration |-> 0]
IdleMR == [pc |-> "idle", n |-> <<>>, k |-> 0, draws |-> 0, last |-> "none", result |-> "none"]

\* A task as spawn_blocking starts it, before mine_worker has run.
\* p holds the statics once mine_worker has loaded them; late counts the
\* iterations it ended after its round had its first result.
NewWorker(ch) == [ch |-> ch, pc |-> "spawned", candidates |-> 0, block |-> <<>>,
                  p |-> <<>>, late |-> 0]

Replace(w, w2) == (workers (-) SetToBag({w})) (+) SetToBag({w2})
Remove(w) == workers (-) SetToBag({w})

\* The values the three statics are declared with.
Declared == [n_limit |-> 1000, min_digits |-> 7, min_prob |-> 100]

\* The state after construction: the genesis chain and the /mine connections
\* conns all idle, with the statics at one of the parameter sets configs.
InitNode(conns, configs) ==
    /\ oc \in BOOLEAN
    /\ chain = <<genesis>>
    /\ \E p \in configs : /\ N_LIMIT = p.n_limit
                          /\ MIN_DIGITS = p.min_digits
                          /\ MIN_PROB = p.min_prob
    /\ handlers = [h \in conns |-> IdleHandler]
    /\ channels = <<>>
    /\ workers = EmptyBag
    /\ returned = [count |-> 0, last |-> <<>>]
    /\ mr = IdleMR

----------------------------------------------------------------------------------------------------------------------------------------------------
(* The blocking task: mine_worker, then the send.  mine_worker reads the     *)
(* statics when it starts and works on its own data from there on, so a call *)
(* is one step, placed where it reads them; the three loads are modelled as  *)
(* one read.                                                                 *)

\* The ways one iteration can end for a worker that loaded p and mines on
\* the tip prev.
Outcomes(prev, p, checks) ==
    IF RangeTable[<<p.min_digits, checks>>].panics THEN {[kind |-> "panic"]}
    ELSE UNION { Iteration(prev, p, cand, checks) : cand \in Draws(p, checks) }

Rejections == {"gcd_rejected", "heuristic_rejected", "miller_rabin_rejected"}

\* The results (Block, MiningStats) mine_worker can return: a block after
\* any number of rejected candidates.  The model follows at most MaxIter
\* rejections; of the statistics it keeps the count of candidates.
Returns(prev, p, checks) ==
    Only({ { [block |-> out.block, stats |-> [candidates |-> k + 1]] :
             out \in {o \in outs : o.kind = "block"},
             k \in {j \in 0..MaxIter : j = 0 \/ \E o \in outs : o.kind \in Rejections} }
           : outs \in {Outcomes(prev, p, checks)} })

\* Whether mine_worker can panic: on an overflow, or on an empty range.
Panics(prev, p, checks) == \E o \in Outcomes(prev, p, checks) : o.kind = "panic"

\* mine_worker returns: the task goes on to send what it returned.
MineWorkerReturns ==
    \E w \in BagToSet(workers) :
        /\ w.pc = "spawned"
        /\ \E res \in Returns(channels[w.ch].prev, Statics, oc) :
              workers' = Replace(w, [w EXCEPT !.pc = "send",
                                              !.candidates = res.stats.candidates,
                                              !.block = <<res.block>>])
        /\ UNCHANGED <<oc, chain, N_LIMIT, MIN_DIGITS, MIN_PROB, handlers, channels, returned, mr>>

\* mine_worker panics: the task is gone and nothing is sent.
MineWorkerPanics ==
    \E w \in BagToSet(workers) :
        /\ w.pc = "spawned"
        /\ Panics(channels[w.ch].prev, Statics, oc)
        /\ workers' = Remove(w)
        /\ UNCHANGED <<oc, chain, N_LIMIT, MIN_DIGITS, MIN_PROB, handlers, channels, returned, mr>>

Message(w) == [block |-> w.block[1], stats |-> [candidates |-> w.candidates]]

\* A send whose message never reaches the channel.
SendLost ==
    \E w \in BagToSet(workers) :
        /\ w.pc = "send"
        /\ workers' = Remove(w)
        /\ UNCHANGED <<oc, chain, N_LIMIT, MIN_DIGITS, MIN_PROB, handlers, channels, returned, mr>>

\* tx.blocking_send into the channel of capacity 1: it waits while the slot
\* is taken, and fails (the result is dropped) once the receiver is gone.
Send ==
    \E w \in BagToSet(workers) :
        /\ w.pc = "send"
        /\ channels[w.ch].open => channels[w.ch].buf = <<>>
        /\ channels' = IF channels[w.ch].open
                       THEN [channels EXCEPT ![w.ch].buf = <<Message(w)>>]
                       ELSE channels
        /\ workers' = Remove(w)
        /\ UNCHANGED <<oc, chain, N_LIMIT, MIN_DIGITS, MIN_PROB, handlers, returned, mr>>

\* A task whose receiver is gone comes to its end: mine_worker panics, or
\* the send of its block fails.  Nothing of it remains.
DetachedEnds ==
    \E w \in BagToSet(workers) :
        /\ w.pc = "detached"
        /\ workers' = Remove(w)
        /\ UNCHANGED <<oc, chain, N_LIMIT, MIN_DIGITS, MIN_PROB, handlers, channels, returned, mr>>

WorkerStep == MineWorkerReturns \/ MineWorkerPanics \/ Send \/ DetachedEnds

\* mine_worker one iteration at a time.  It starts with the three loads.
MineWorkerLoads ==
    \E w \in BagToSet(workers) :
        /\ w.pc = "spawned"
        /\ workers' = Replace(w, [w EXCEPT !.pc = "mining", !.p = <<Statics>>])
        /\ UNCHANGED <<oc, chain, N_LIMIT, MIN_DIGITS, MIN_PROB, handlers, channels, returned, mr>>

\* The round of the channel ch has its first result: a send has succeeded.
HasResult(ch) == channels[ch].buf # <<>> \/ ~channels[ch].open

MaxLate == 2

\* One pass of the loop: the candidate is rejected and the loop goes on, or
\* it panics, or mine_worker returns its block.  Nothing in the loop looks
\* at the channel.  The model follows MaxIter rejections before the first
\* result of the round and MaxLate iterations after it.
MineWorkerIterates ==
    \E w \in BagToSet(workers) :
        /\ w.pc = "mining"
        /\ LET late == IF HasResult(w.ch) THEN w.late + 1 ELSE 0
           IN  /\ late <= MaxLate
               /\ \E o \in Outcomes(channels[w.ch].prev, w.p[1], oc) :
                     /\ o.kind \in Rejections => (late > 0 \/ w.candidates < MaxIter)
                     /\ workers' =
                           IF o.kind = "panic" THEN Remove(w)
                           ELSE IF o.kind = "block"
                           THEN Replace(w, [w EXCEPT !.pc = "send", !.candidates = @ + 1,
                                                     !.block = <<o.block>>, !.late = late])
                           ELSE Replace(w, [w EXCEPT !.candidates = @ + 1, !.late = late])
        /\ UNCHANGED <<oc, chain, N_LIMIT, MIN_DIGITS, MIN_PROB, handlers, channels, returned, mr>>

----------------------------------------------------------------------------
(* The /mine handler, one step for each access to what the requests share.  *)

\* Read the tip under the lock, start the clock, and enter
\* mine_block_parallel: create the channel and spawn the workers.
MineStart(h) ==
    /\ handlers[h].pc = "idle"
    /\ Len(channels) < MaxRounds
    /\ channels' = Append(channels, [prev |-> chain[Len(chain)], buf |-> <<>>, open |-> TRUE])
    /\ workers' = workers (+) [w \in {NewWorker(Len(channels) + 1)} |-> NumWorkers]
    /\ handlers' = [handlers EXCEPT ![h] = [pc |-> "recv", ch |-> Len(channels) + 1,
                                            got |-> <<>>, duration |-> 0]]
    /\ UNCHANGED <<oc, chain, N_LIMIT, MIN_DIGITS, MIN_PROB, returned, mr>>

\* What is left to follow of a task once the receiver of its channel is
\* dropped: that it runs on.  What it finds can no longer be received.
Detached(w) == [NewWorker(w.ch) EXCEPT !.pc = "detached"]

\* The bag of the tasks after the receiver of the channel ch is dropped.
RECURSIVE DetachAll(_, _, _)
DetachAll(bag, todo, ch) ==
    IF todo = {} THEN bag
    ELSE LET w == CHOOSE x \in todo : TRUE
         IN  DetachAll((bag (-) [y \in {w} |-> bag[w]]) (+) [y \in {Detached(w)} |-> bag[w]],
                       todo \ {w}, ch)

\* rx.recv() yields the first message; mine_block_parallel returns, which
\* drops the receiver, and the handler reads the clock.
Recv(h) ==
    /\ handlers[h].pc = "recv"
    /\ channels[handlers[h].ch].buf # <<>>
    /\ \E t \in Durations :
          handlers' = [handlers EXCEPT ![h] = [pc |-> "push", ch |-> @.ch,
                                               got |-> channels[@.ch].buf, duration |-> t]]
    /\ channels' = [channels EXCEPT ![handlers[h].ch] = [@ EXCEPT !.buf = <<>>, !.open = FALSE]]
    /\ workers' = DetachAll(workers, {w \in BagToSet(workers) : w.ch = handlers[h].ch},
                            handlers[h].ch)
    /\ UNCHANGED <<oc, chain, N_LIMIT, MIN_DIGITS, MIN_PROB, returned, mr>>

\* The same receive, with the tasks of the round followed as they are.
RecvKeep(h) ==
    /\ handlers[h].pc = "recv"
    /\ channels[handlers[h].ch].buf # <<>>
    /\ \E t \in Durations :
          handlers' = [handlers EXCEPT ![h] = [pc |-> "push", ch |-> @.ch,
                                               got |-> channels[@.ch].buf, duration |-> t]]
    /\ channels' = [channels EXCEPT ![handlers[h].ch] = [@ EXCEPT !.buf = <<>>, !.open = FALSE]]
    /\ UNCHANGED <<oc, chain, N_LIMIT, MIN_DIGITS, MIN_PROB, workers, returned, mr>>

PushTwice(h) ==
    /\ handlers[h].pc = "push"
    /\ chain' = push(push(chain, handlers[h].got[1].block), handlers[h].got[1].block)
    /\ handlers' = [handlers EXCEPT ![h].pc = "adjust_n_limit"]
    /\ UNCHANGED <<oc, N_LIMIT, MIN_DIGITS, MIN_PROB, channels, workers, returned, mr>>

\* s.chain.push(new_block) under the lock
Push(h) ==
    /\ handlers[h].pc = "push"
    /\ chain' = push(chain, handlers[h].got[1].block)
    /\ handlers' = [handlers EXCEPT ![h].pc = "adjust_n_limit"]
    /\ UNCHANGED <<oc, N_LIMIT, MIN_DIGITS, MIN_PROB, channels, workers, returned, mr>>

\* adjust_difficulty: the branch taken and its first fetch_update
AdjustNLimit(h) ==
    /\ handlers[h].pc = "adjust_n_limit"
    /\ IF IsFast(handlers[h].duration)
       THEN /\ N_LIMIT' = NLimitUp(N_LIMIT)
            /\ handlers' = [handlers EXCEPT ![h].pc = "adjust_min_digits"]
       ELSE IF IsSlow(handlers[h].duration)
       THEN /\ N_LIMIT' = NLimitDown(N_LIMIT)
            /\ handlers' = [handlers EXCEPT ![h].pc = "adjust_min_prob"]
       ELSE /\ N_LIMIT' = N_LIMIT
            /\ handlers' = [handlers EXCEPT ![h].pc = "respond"]
    /\ UNCHANGED <<oc, chain, MIN_DIGITS, MIN_PROB, channels, workers, returned, mr>>

\* MIN_DIGITS.fetch_add(1), on the fast branch only
AdjustMinDigits(h) ==
    /\ handlers[h].pc = "adjust_min_digits"
    /\ MIN_DIGITS' = MIN_DIGITS + 1
    /\ handlers' = [handlers EXCEPT ![h].pc = "adjust_min_prob"]
    /\ UNCHANGED <<oc, chain, N_LIMIT, MIN_PROB, channels, workers, returned, mr>>

\* The fetch_update of MIN_PROB that ends either branch
AdjustMinProb(h) ==
    /\ handlers[h].pc = "adjust_min_prob"
    /\ MIN_PROB' = IF IsFast(handlers[h].duration) THEN MinProbUp(MIN_PROB)
                   ELSE MinProbDown(MIN_PROB)
    /\ handlers' = [handlers EXCEPT ![h].pc = "respond"]
    /\ UNCHANGED <<oc, chain, N_LIMIT, MIN_DIGITS, channels, workers, returned, mr>>

\* The JSON answer, of which the model keeps the block's index and
\* stats.candidates: the request is over, and its locals with it.
Answer(got) == [index |-> got.block.index, candidates |-> got.stats.candidates]

Respond(h) ==
    /\ handlers[h].pc = "respond"
    /\ handlers' = [handlers EXCEPT ![h] = IdleHandler]
    /\ returned' = [count |-> returned.count + 1, last |-> <<Answer(handlers[h].got[1])>>]
    /\ UNCHANGED <<oc, chain, N_LIMIT, MIN_DIGITS, MIN_PROB, channels, workers, mr>>

\* The /chain handler clones the chain under the lock and changes nothing.
ReadChain == UNCHANGED vars

HandlerStep(h) == MineStart(h) \/ Recv(h) \/ Push(h) \/ AdjustNLimit(h)
                  \/ AdjustMinDigits(h) \/ AdjustMinProb(h) \/ Respond(h)

\* Requests on two connections, served at the same time.
Conns == {1, 2}
Init == InitNode(Conns, {Declared})
Next == (\E h \in Conns : HandlerStep(h)) \/ WorkerStep \/ ReadChain
Spec == Init /\ [][Next]_vars

\* One client that sends a request only after the answer to the previous one.
SeqInit == InitNode({1}, {Declared})
SeqNext == HandlerStep(1) \/ WorkerStep
SeqSpec == SeqInit /\ [][SeqNext]_vars

\* One request, with its workers followed iteration by iteration, also
\* after the round has its result.
CancelInit == InitNode({1}, {Declared})
CancelNext ==
    \/ Len(channels) = 0 /\ MineStart(1)
    \/ MineWorkerLoads \/ MineWorkerIterates \/ Send
    \/ RecvKeep(1) \/ Push(1) \/ AdjustNLimit(1) \/ AdjustMinDigits(1)
    \/ AdjustMinProb(1) \/ Respond(1)
CancelSpec == CancelInit /\ [][CancelNext]_vars

----------------------------------------------------------------------------
(* A /mine request served with no other in flight, as one step: the tip,   *)
(* the race, the push and adjust_difficulty.                                *)

\* The request returns when some worker returns; it measures a duration of
\* the set durations.  rounds bounds the blocks mined.
Round(durations, rounds) ==
    /\ handlers[1].pc = "idle"
    /\ Len(chain) <= rounds
    /\ \E res \in Returns(chain[Len(chain)], Statics, oc), t \in durations :
          /\ chain' = push(chain, res.block)
          /\ LET p == adjust_difficulty(Statics, t)
             IN  /\ N_LIMIT' = p.n_limit
                 /\ MIN_DIGITS' = p.min_digits
                 /\ MIN_PROB' = p.min_prob
          /\ returned' = [count |-> returned.count + 1, last |-> <<Answer(res)>>]
    /\ UNCHANGED <<oc, handlers, channels, workers, mr>>

\* Many rounds, each fast or slow.
DeepRounds == 10
DeepDurations == {3000, 16000}
RoundInit == InitNode({1}, {Declared})
RoundNext == Round(DeepDurations, DeepRounds)
RoundSpec == RoundInit /\ [][RoundNext]_vars

\* A few rounds, with durations at and beside the two thresholds.
AdjustRounds == 4
AdjustDurations == {3000, 5999, 6000, 10000, 14000, 14001, 16000}
AdjustInit == InitNode({1}, {Declared})
AdjustNext == Round(AdjustDurations, AdjustRounds)
AdjustSpec == AdjustInit /\ [][AdjustNext]_vars

----------------------------------------------------------------------------
(* The controller on its own: adjust_difficulty called again and again,    *)
(* each time with one of the durations, whatever the rounds between do.    *)

\* adjust_difficulty(duration), all of it.  MaxDigits bounds min_digits.
Adjust(duration) ==
    /\ IsFast(duration) => MIN_DIGITS < MaxDigits
    /\ LET p == adjust_difficulty(Statics, duration)
       IN  /\ N_LIMIT' = p.n_limit
           /\ MIN_DIGITS' = p.min_digits
           /\ MIN_PROB' = p.min_prob
    /\ UNCHANGED <<oc, chain, handlers, channels, workers, returned, mr>>

ControlInit == InitNode({1}, {Declared})
ControlNext == \E t \in Durations : Adjust(t)
ControlSpec == ControlInit /\ [][ControlNext]_vars

----------------------------------------------------------------------------
(* A call of miller_rabin(n, k), one round at a time.                       *)

MaxK == 12

\* The numbers tested.
Inputs == {N(i) : i \in {0, 1, 2, 3, 4, 5, 7, 9, 11, 13, 15, 21, 97, 100, 561, 7919}}
          \cup {Dec(<<4294, 967311>>), Add(Pow2(36), One)}

\* For each input that reaches the rounds and each build, what a round can
\* come to over the bases it may draw, and how many of the bases pass.
RoundTable ==
    [x \in {n \in Inputs : MRPre(n) = "rounds"} \X BOOLEAN |->
        Only({ [outcomes |-> {r[2] : r \in rs},
                bases    |-> Cardinality(rs),
                passing  |-> Cardinality({r \in rs : r[2] = "pass"})]
               : rs \in {{<<a, MRRound(a, x[1], x[2])>> : a \in Bases(x[1])}} })]
    @@ <<>>

VerifierInit ==
    /\ oc \in BOOLEAN
    /\ chain = <<genesis>>
    /\ N_LIMIT = Declared.n_limit
    /\ MIN_DIGITS = Declared.min_digits
    /\ MIN_PROB = Declared.min_prob
    /\ handlers = [h \in {1} |-> IdleHandler]
    /\ channels = <<>>
    /\ workers = EmptyBag
    /\ returned = [count |-> 0, last |-> <<>>]
    /\ \E n \in Inputs, k \in 0..MaxK :
          mr = [pc |-> "call", n |-> n, k |-> k, draws |-> 0, last |-> "none", result |-> "none"]

\* The three tests before the loop.
MRPrecheck ==
    /\ mr.pc = "call"
    /\ mr' = IF MRPre(mr.n) = "rounds" THEN [mr EXCEPT !.pc = "rounds"]
             ELSE [mr EXCEPT !.pc = "done", !.result = MRPre(mr.n)]
    /\ UNCHANGED <<oc, chain, N_LIMIT, MIN_DIGITS, MIN_PROB, handlers, channels, workers, returned>>

\* One pass of the outer loop: a base is drawn and the round passes (the
\* loop goes on), fails (return false) or panics.
MRRoundStep ==
    /\ mr.pc = "rounds"
    /\ mr.k > 0
    /\ \E o \in RoundTable[<<mr.n, oc>>].outcomes :
          mr' = IF o = "pass"
                THEN [mr EXCEPT !.k = @ - 1, !.draws = @ + 1, !.last = "pass"]
                ELSE [mr EXCEPT !.pc = "done", !.draws = @ + 1, !.last = o,
                                !.result = IF o = "fail" THEN "false" ELSE "panic"]
    /\ UNCHANGED <<oc, chain, N_LIMIT, MIN_DIGITS, MIN_PROB, handlers, channels, workers, returned>>

\* The loop is over: return true.
MRReturnTrue ==
    /\ mr.pc = "rounds"
    /\ mr.k = 0
    /\ mr' = [mr EXCEPT !.pc = "done", !.result = "true"]
    /\ UNCHANGED <<oc, chain, N_LIMIT, MIN_DIGITS, MIN_PROB, handlers, channels, workers, returned>>

VerifierNext == MRPrecheck \/ MRRoundStep \/ MRReturnTrue
VerifierSpec == VerifierInit /\ [][VerifierNext]_vars

----------------------------------------------------------------------------
(* Rounds of one client under fair scheduling: a step of the handler or of *)
(* a task that stays possible is taken, and so is the one receive.  The    *)
(* statics start as declared, or at the smallest search space.             *)

Tiny == [n_limit |-> 5, min_digits |-> 1, min_prob |-> 100]

LiveInit == InitNode({1}, {Declared, Tiny})
LiveSpec ==
    /\ LiveInit
    /\ [][SeqNext]_vars
    /\ WF_vars(Recv(1) \/ Push(1) \/ AdjustNLimit(1) \/ AdjustMinDigits(1)
               \/ AdjustMinProb(1) \/ Respond(1))
    /\ WF_vars(MineWorkerReturns)
    /\ WF_vars(Send)

----------------------------------------------------------------------------
(* The ledger.                                                              *)

\* C1: in every reachable state, rounds overlapping or not, each block after
\* the first has the index of its predecessor plus one and its
\* predecessor's hash as prev_hash.
C1_ChainLink ==
    \A i \in 2..Len(chain) :
        /\ chain[i].index = chain[i - 1].index + 1
        /\ chain[i].prev_hash = chain[i - 1].hash

\* Two requests in flight have both pushed a block mined on the genesis tip.
C1_Overlap ==
    /\ Len(chain) = 3
    /\ chain[2].index = 1
    /\ chain[3].index = 1

\* C2: when the requests come one after another, the chain holds one block
\* for each request answered, besides genesis, once the handler is idle, and
\* the indices are 0, 1, 2, ... in order at all times: the four workers of
\* a round give one append.
C2_SingleAppend ==
    /\ handlers[1].pc = "idle" => Len(chain) = returned.count + 1
    /\ Len(chain) <= returned.count + 2
    /\ \A i \in 1..Len(chain) : chain[i].index = i - 1

\* Two rounds answered, with workers that lost a race still running.
C2_TwoRounds ==
    /\ returned.count = 2
    /\ handlers[1].pc = "idle"
    /\ Len(chain) = 3
    /\ \E w \in BagToSet(workers) : w.pc = "detached"

\* C3: in every reachable state the first block of the chain is the genesis
\* block {index 0, prev_hash "0", prime 2, a = b = c = d = 1, hash "genesis"}.
C3_GenesisFixed ==
    chain[1] = [index |-> 0, prev_hash |-> "0", prime |-> <<2>>, a |-> <<1>>, b |-> <<1>>,
                c |-> <<1>>, d |-> <<1>>, hash |-> "genesis"]

\* Two blocks pushed by overlapping requests, genesis still first.
C3_AfterPushes ==
    /\ Len(chain) = 3
    /\ chain[1].hash = "genesis"
    /\ chain[3].index = 1

\* C11: every step leaves the chain as it is or appends to it: the chain
\* before the step is a prefix of the chain after it, so that no block is ever
\* removed, reordered or modified and the length never decreases; and a read
\* of the chain (GET /chain) leaves it unchanged.
C11_AppendOnly ==
    [][/\ Len(chain') >= Len(chain)
       /\ SubSeq(chain', 1, Len(chain)) = chain
       /\ ReadChain => chain' = chain]_vars

\* Two overlapping rounds have both pushed, the second on top of the first.
C11_TwoAppends ==
    /\ Len(chain) = 3
    /\ \A h \in Conns : handlers[h].pc \in {"adjust_n_limit", "respond"}

\* C4: every block a round appended has prime = a*d + b*c as integers (not
\* modulo 2^64), gcd(a, b) = 1 and gcd(c, d) = 1.
C4_BlockIdentity ==
    \A i \in 2..Len(chain) :
        /\ chain[i].prime = Add(Mul(chain[i].a, chain[i].d), Mul(chain[i].b, chain[i].c))
        /\ gcd(chain[i].a, chain[i].b) = One
        /\ gcd(chain[i].c, chain[i].d) = One

----------------------------------------------------------------------------
(* The difficulty controller.  A step of AdjustSpec is a whole round, and  *)
(* Round({t}, AdjustRounds) says that it measured the duration t.          *)

\* C5 as stated: after a round with t < 0.6 * target, n_limit is 1.5 times
\* its value rounded to an integer (either way), min_digits is one more and
\* min_prob is exactly min(1.2 * min_prob, 0.1).
C5_RatchetUpExact ==
    [][\A t \in AdjustDurations :
          (10 * t < 6 * target /\ Round({t}, AdjustRounds)) =>
              /\ 2 * N_LIMIT' \in {3 * N_LIMIT - 1, 3 * N_LIMIT, 3 * N_LIMIT + 1}
              /\ MIN_DIGITS' = MIN_DIGITS + 1
              /\ 10 * MIN_PROB' = Min(12 * MIN_PROB, 10000)]_vars

\* C5, amended: after a round with t < 0.6 * target, n_limit is 1.5 times
\* its value rounded down, min_digits is one more, and min_prob, a whole
\* number of ten-thousandths, is 1.2 times its value rounded down to a
\* ten-thousandth and capped at 0.1; from (1000, 7, 0.01) and 3.0 s the
\* next parameters are (1500, 8, 0.012).
C5_RatchetUp ==
    [][\A t \in AdjustDurations :
          (10 * t < 6 * target /\ Round({t}, AdjustRounds)) =>
              /\ N_LIMIT' = (3 * N_LIMIT) \div 2
              /\ MIN_DIGITS' = MIN_DIGITS + 1
              /\ MIN_PROB' = Min((12 * MIN_PROB) \div 10, 1000)
              /\ (N_LIMIT = 1000 /\ MIN_DIGITS = 7 /\ MIN_PROB = 100 /\ t = 3000) =>
                     (N_LIMIT' = 1500 /\ MIN_DIGITS' = 8 /\ MIN_PROB' = 120)]_vars

\* Three fast rounds in a row: 1.2 * 0.0144 = 0.01728 is stored as 0.0172.
C5_ThreeUps == N_LIMIT = 3375 /\ MIN_DIGITS = 10 /\ MIN_PROB = 172 /\ Len(chain) = 4

\* C6: after a round with t > 1.4 * target, n_limit is max(0.7 * n_limit,
\* 100) and min_prob is max(0.8 * min_prob, 0.005), each rounded to an
\* integer (of ten-thousandths) either way, and min_digits is unchanged;
\* from (1000, 7, 0.01) and 16.0 s the next parameters are (700, 7, 0.008).
C6_RatchetDown ==
    [][\A t \in AdjustDurations :
          (10 * t > 14 * target /\ Round({t}, AdjustRounds)) =>
              /\ N_LIMIT' \in {Max((7 * N_LIMIT) \div 10, 100), Max((7 * N_LIMIT + 9) \div 10, 100)}
              /\ MIN_PROB' \in {Max((8 * MIN_PROB) \div 10, 50), Max((8 * MIN_PROB + 9) \div 10, 50)}
              /\ MIN_DIGITS' = MIN_DIGITS
              /\ (N_LIMIT = 1000 /\ MIN_DIGITS = 7 /\ MIN_PROB = 100 /\ t = 16000) =>
                     (N_LIMIT' = 700 /\ MIN_DIGITS' = 7 /\ MIN_PROB' = 80)]_vars

\* Two slow rounds in a row: 0.7 * 700 is stored as 489.
C6_TwoDowns == N_LIMIT = 489 /\ MIN_DIGITS = 7 /\ MIN_PROB = 64 /\ Len(chain) = 3

\* C7: after a round with 0.6 * target <= t <= 1.4 * target (6.0 s and
\* 14.0 s included) n_limit, min_digits and min_prob are all unchanged.
C7_RatchetStable ==
    [][\A t \in AdjustDurations :
          (6 * target <= 10 * t /\ 10 * t <= 14 * target /\ Round({t}, AdjustRounds)) =>
              UNCHANGED <<N_LIMIT, MIN_DIGITS, MIN_PROB>>]_vars

\* Rounds have been mined and the parameters are as declared, which only
\* rounds in the stable band allow (a fast round raises min_digits for good,
\* a slow one lowers n_limit below 1000 for as long as min_digits is 7).
C7_StableRounds ==
    /\ Len(chain) = 3
    /\ N_LIMIT = 1000 /\ MIN_DIGITS = 7 /\ MIN_PROB = 100

----------------------------------------------------------------------------
(* The verifier.                                                            *)

\* Primality by trial division by the odd numbers up to 2 * TrialBound(n) + 1,
\* whose square exceeds every n of one limb, of two limbs, and 2^36 + 1.
TrialBound(n) == IF Len(n) <= 1 THEN 90 ELSE IF Len(n) = 2 THEN 2^14 ELSE 2^17

IsPrime(n) ==
    /\ ~Lt(n, Two)
    /\ n = Two \/ IsOdd(n)
    /\ \A j \in 1..TrialBound(n) :
          Lt(n, Mul(N(2 * j + 1), N(2 * j + 1))) \/ Mod(n, N(2 * j + 1)) # <<>>

PrimeInputs == {n \in Inputs : IsPrime(n)}

\* C8: a call of miller_rabin(n, k) returns true when n is prime, whatever
\* the bases drawn; it returns false for n <= 1 and for even n other than 2,
\* and true for n = 2 and n = 3, without drawing a base.
C8_NoFalseNegatives ==
    mr.pc = "done" =>
        /\ mr.n \in PrimeInputs => mr.result = "true"
        /\ Le(mr.n, One) => (mr.result = "false" /\ mr.draws = 0)
        /\ (~IsOdd(mr.n) /\ mr.n # Two) => (mr.result = "false" /\ mr.draws = 0)
        /\ mr.n \in {Two, Three} => (mr.result = "true" /\ mr.draws = 0)

\* The call on the prime 2^32 + 15 has ended, and not with true.
C8_BigPrime ==
    /\ mr.pc = "done"
    /\ mr.n = Dec(<<4294, 967311>>)
    /\ mr.result # "true"

Composites == {N(4), N(9), N(15), N(21), N(100), N(561)}

\* C9: for n in {4, 9, 15, 21, 100, 561}: an even n is rejected without a
\* draw; for an odd n at most a quarter of the bases in [2, n-2] let a round
\* pass; a round that fails ends the call with false at once; and true is
\* returned only when all the rounds asked for have passed.
C9_RejectsComposites ==
    mr.n \in Composites =>
        /\ ~IsOdd(mr.n) => (mr.pc = "done" => (mr.result = "false" /\ mr.draws = 0))
        /\ IsOdd(mr.n) =>
              /\ RoundTable[<<mr.n, oc>>].bases = ToInt(mr.n) - 3
              /\ 4 * RoundTable[<<mr.n, oc>>].passing <= RoundTable[<<mr.n, oc>>].bases
        /\ mr.last = "fail" => (mr.pc = "done" /\ mr.result = "false")
        /\ mr.result = "true" => (mr.k = 0 /\ mr.last # "fail")
        /\ mr.result # "panic"

\* 561 was rejected, after a round that one of its eight passing bases let pass.
C9_Carmichael ==
    /\ mr.n = N(561)
    /\ mr.pc = "done"
    /\ mr.result = "false"
    /\ mr.draws = 2

----------------------------------------------------------------------------
(* Liveness of a round.                                                     *)

\* C10: with min_digits = 1 and n_limit = 5, a round triggered on the
\* genesis-only chain is answered in the end, with one block appended and
\* at least one candidate counted.
C10_RoundLiveness ==
    (/\ N_LIMIT = 5 /\ MIN_DIGITS = 1
     /\ Len(chain) = 1
     /\ handlers[1].pc = "recv")
    ~> (/\ returned.count = 1
        /\ Len(chain) = 2
        /\ returned.last[1].candidates >= 1)

\* The first round from the smallest search space has been answered (a
\* round from the declared parameters leaves min_digits at 7 or more).
C10_TinyAnswered ==
    /\ MIN_DIGITS <= 2
    /\ returned.count = 1
    /\ Len(chain) = 2
    /\ returned.last[1].candidates >= 1

----------------------------------------------------------------------------
(* The blocks the workers emit.                                             *)

\* The blocks emitted and not yet pushed, each with the tip its round read:
\* those the tasks are about to send, those in the channels and those the
\* handlers have received.
Emitted ==
    { <<w.block[1], channels[w.ch].prev>> : w \in {x \in BagToSet(workers) : x.pc = "send"} }
    \cup { <<channels[i].buf[1].block, channels[i].prev>> :
              i \in {j \in 1..Len(channels) : channels[j].buf # <<>>} }
    \cup { <<handlers[h].got[1].block, channels[handlers[h].ch].prev>> :
              h \in {g \in DOMAIN handlers : handlers[g].got # <<>>} }

\* C12: every block emitted has index = prev.index + 1, prev_hash = prev.hash
\* and hash = the lowercase hexadecimal of prime XOR prev.prime, for prev the
\* tip its round read at the start: 2000003 on genesis (prime 2) gives
\* "1e8481", 20000003 on 2000003 gives "12fa980", and the prime of the tip
\* mined again gives "0".
C12_BlockFromTip ==
    \A e \in Emitted :
        /\ e[1].index = e[2].index + 1
        /\ e[1].prev_hash = e[2].hash
        /\ e[1].hash = ToHex(Xor(e[1].prime, e[2].prime))
        /\ (e[1].prime = Dec(<<2, 3>>) /\ e[2].prime = Two) => e[1].hash = "1e8481"
        /\ (e[1].prime = Dec(<<20, 3>>) /\ e[2].prime = Dec(<<2, 3>>)) => e[1].hash = "12fa980"
        /\ e[1].prime = e[2].prime => e[1].hash = "0"

\* A worker of the second round has emitted 20000003 on the tip 2000003.
C12_SecondRoundBlock ==
    \E e \in Emitted : /\ e[1].index = 2
                       /\ e[1].prime = Dec(<<20, 3>>)
                       /\ e[2].prime = Dec(<<2, 3>>)

----------------------------------------------------------------------------
(* The parameters the controller can reach.                                 *)

\* C13: after any sequence of calls of adjust_difficulty from (1000, 7,
\* 0.01), with any durations, 0.005 <= min_prob <= 0.1 and n_limit >= 100.
C13_DifficultyBounds ==
    /\ 50 <= MIN_PROB /\ MIN_PROB <= 1000
    /\ N_LIMIT >= 100

\* Thirteen fast rounds in a row: 1.2 * 0.0882 = 0.1058 is cut to the cap.
C13_AtCap == MIN_PROB = 1000 /\ MIN_DIGITS = 20 /\ N_LIMIT = 194581

\* The largest a * d + b * c the ranges allow: 2 * (10^min_digits - 1) * n_limit.
MaxCandidate == Mul(Mul(Two, Sub(Pow10(MIN_DIGITS), One)), N(N_LIMIT))

\* 10^min_digits and every candidate of the ranges fit in 64 bits.
RangeFits == ~Overflows(Pow10(MIN_DIGITS)) /\ ~Overflows(MaxCandidate)

\* C14: after any sequence of rounds, 10^min_digits and every candidate
\* a * d + b * c of the configured ranges fit in 64 bits, and no block on the
\* chain was built from a candidate that does not.
C14_NoOverflow ==
    /\ RangeFits
    /\ \A i \in 2..Len(chain) :
          ~Overflows(Add(Mul(chain[i].a, chain[i].d), Mul(chain[i].b, chain[i].c)))

\* The smallest candidate of the ranges: a = c = 10^(min_digits - 1) and
\* b = d = 1, which the GCD check lets through.
MinCandidate == Mul(Two, Pow10(MIN_DIGITS - 1))

\* C15: under every parameter set rounds can reach, some candidate of the
\* ranges passes the GCD check and has 1 / ln(a * d + b * c) >= min_prob.
\* Where the ranges fit in 64 bits this is so exactly if the smallest
\* candidate passes, 1 / ln being decreasing; the other sets are left out.
C15_SearchSpace ==
    RangeFits => /\ ~GcdRejects(<<Pow10(MIN_DIGITS - 1), One, Pow10(MIN_DIGITS - 1), One>>)
                 /\ TRUE \in prime_heuristic(MinCandidate, MIN_PROB)

----------------------------------------------------------------------------
(* Modular exponentiation.                                                  *)

\* base^exp mod modu, every product taken in full before it is reduced.
RECURSIVE ModExpLoop(_, _, _, _)
ModExpLoop(result, base, exp, modu) ==
    IF exp = <<>> THEN result
    ELSE Only({ ModExpLoop(r, b, Half(exp), modu)
                : r \in {IF IsOdd(exp) THEN Mod(Mul(result, base), modu) ELSE result},
                  b \in {Mod(Mul(base, base), modu)} })

ModExp(base, exp, modu) == ModExpLoop(One, Mod(base, modu), exp, modu)

\* For each input that reaches the rounds and each build: whether mod_pow
\* gives base^exp mod n for the bases a round may draw and the exponents
\* miller_rabin uses, the odd part of n - 1 and 2.
PowTable ==
    [x \in {n \in Inputs : MRPre(n) = "rounds"} \X BOOLEAN |->
        \A a \in Bases(x[1]), e \in {TwoAdic(Sub(x[1], One), 0)[1], Two} :
            mod_pow(a, e, x[1], x[2]) = ModExp(a, e, x[1])] @@ <<>>

\* C16: for every modulus n the verifier works on and every base and
\* exponent it uses, mod_pow(base, exp, n) is base^exp mod n: no product
\* overflows.
C16_ModPowExact == mr.pc = "rounds" => PowTable[<<mr.n, oc>>]

----------------------------------------------------------------------------
(* The statics as a set.                                                    *)

\* No call of adjust_difficulty is between two of its updates.
Settled ==
    \A h \in DOMAIN handlers : handlers[h].pc \notin {"adjust_min_digits", "adjust_min_prob"}

\* C17: a step that changes the statics is a whole update, from the triple
\* before adjust_difficulty to the triple after it, and a worker reads them
\* only when no update is under way.
C17_AtomicParameters ==
    [][/\ Statics' # Statics => \E t \in Durations : Statics' = adjust_difficulty(Statics, t)
       /\ MineWorkerReturns => Settled]_vars

----------------------------------------------------------------------------
(* Errors.                                                                  *)

\* C19: a step that changes the chain appends one block, whose index is the
\* length of the chain before the step and whose prev_hash is the hash of
\* the tip before the step; a block that is not so leaves the chain as it is.
C19_AppendValidated ==
    [][chain' # chain =>
          /\ chain' = Append(chain, chain'[Len(chain')])
          /\ chain'[Len(chain')].index = Len(chain)
          /\ chain'[Len(chain')].prev_hash = chain[Len(chain)].hash]_vars

\* C20: a handler that waits for the first result of its round has a result
\* in the channel or a task of the round still running: it never waits with
\* every worker gone and nothing sent.
C20_NoDeadWait ==
    \A h \in DOMAIN handlers :
        handlers[h].pc = "recv" =>
            \/ channels[handlers[h].ch].buf # <<>>
            \/ \E w \in BagToSet(workers) : w.ch = handlers[h].ch

----------------------------------------------------------------------------
(* Cancellation.                                                            *)

\* C18: once its round has its first result, a worker ends the iteration it
\* is in and at most one more, and then mines no longer.
C18_Cancellation ==
    \A w \in BagToSet(workers) : w.pc = "mining" => w.late < 2

====
